---------------------------- MODULE Spec2Model ----------------------------
(***************************************************************************)
(* The request handler of the timesync API (functions/api.js): preflight,  *)
(* response cache with a one second freshness window, fixed-window rate    *)
(* limiter, parameter validation, computation of the time report.          *)
(*                                                                         *)
(* Strings are sequences of tokens.  A token is a maximal run of letters,  *)
(* digits, '_' and '.', or one punctuation character ("=", "&", "/"), so   *)
(* that two token sequences are equal exactly when the strings they spell  *)
(* are equal, and concatenation of strings is \o.  An optional string      *)
(* (null in the code) is <<>> for null and <<s>> for the string s.         *)
(***************************************************************************)
EXTENDS Integers, Sequences, FiniteSets, TLC

VARIABLES
    now,            \* the platform clock: the value of its latest reading (ms)
    responseCache,  \* Map: cache key -> [response, timestamp]
    rateLimitMap,   \* Map: client ip -> [count, last]
    req,            \* the request handled last
    resp,           \* the response returned to it
    stage,          \* the stage of onRequest that returned it
    found,          \* what it had read from the two maps: the entry under the
                    \* cache key and the record of the client, null if none
    passed,         \* history: per client, requests let through the rate-limit
                    \* stage since the start of the client's current window
    reached,        \* history: per client, requests that reached the rate-limit
                    \* stage since the start of the client's current window
    traffic,        \* the client headers of the requests that arrive
    log,            \* history, where one is kept: per client and clock reading,
                    \* the requests let through the rate-limit stage in the
                    \* last 60000 ms
    refused,        \* history, where one is kept: per client, the requests
                    \* answered 400 since the start of the client's window
    urlA, urlB,     \* two query strings given to generateCacheKey
    keyA, keyB,     \* the keys it returned for them
    platform,       \* the engine on which a time report is computed
    reportDate,     \* the instant of the report (utcDate of the try block)
    reportZone,     \* its timezone
    report,         \* the fields computed for it, null before
    offsetArg,      \* an offset given to the formatting of calculateUTCOffset
    offsetString,   \* the string built from it, null before
    tzParam,        \* a value of the timezone parameter given to the validation
                    \* of the variants with the format check, null if absent
    tzSupported,    \* validTimezones of the platform the variant runs on
    tzAnswer        \* what the validation answered, null before

vars == <<now, responseCache, rateLimitMap, req, resp, stage, found, passed, reached,
          traffic, log, refused,
          urlA, urlB, keyA, keyB,
          platform, reportDate, reportZone, report, offsetArg, offsetString,
          tzParam, tzSupported, tzAnswer>>

handlerVars == <<now, responseCache, rateLimitMap, req, resp, stage, found, passed,
                 reached, traffic, log, refused>>

keyVars == <<urlA, urlB, keyA, keyB>>

timeVars == <<platform, reportDate, reportZone, report, offsetArg, offsetString>>

formatVars == <<tzParam, tzSupported, tzAnswer>>

-----------------------------------------------------------------------------
(* Program constants *)

RATE_LIMIT_WINDOW_MS == 60 * 1000
RATE_LIMIT_MAX_REQUESTS == 100
CACHE_TTL_MS == 1000

(* Bounds of the model *)

\* the clock is read at the instants w * RATE_LIMIT_WINDOW_MS + o, w in 0..MaxWindows
MaxWindows == 1
\* the clock advances by at most this much between the two readings of one request
MaxLatency == 1
\* a client record's count is not driven beyond this value
MaxCount == 102
\* one client at a time is driven beyond this count
MaxBackground == 1
\* a count above MaxBackground and more than BurstMargin below the threshold is
\* a burst under way: the model follows it as the repetition of one request,
\* with the clock standing still and no other request in between
BurstMargin == 1

-----------------------------------------------------------------------------
(* Strings *)

None == <<>>
Some(s) == <<s>>

\* the value a const of the program holds: the element of a set of one
\* element, so that in The({F(v) : v \in {e}}) the expression e is computed once
The(S) == CHOOSE v \in S : TRUE

EmptyStr == <<>>
Str(tok) == <<tok>>

TZ_AKL == <<"Pacific", "/", "Auckland">>
TZ_TOKYO == <<"Asia", "/", "Tokyo">>
TZ_PHOBOS == <<"Mars", "/", "Phobos">>

\* Intl.supportedValuesOf('timeZone'), as far as the requests of the model go
validTimezones == {TZ_AKL, TZ_TOKYO}

UNKNOWN == Str("unknown")
IP_A == Str("203.0.113.7")

\* the parameter names of the model, in the order of their UTF-16 code units
NameOrder == <<Str("format"), Str("timezone"), Str("x")>>

NameRank(name) == CHOOSE i \in 1..Len(NameOrder) : NameOrder[i] = name

\* Array.prototype.sort's default comparison of two names
NameLess(a, b) == NameRank(a) < NameRank(b)

-----------------------------------------------------------------------------
(* URLSearchParams: a query is the sequence of its decoded <<name, value>>  *)
(* pairs, in the order of the URL.                                          *)

Param(name, value) == <<name, value>>

\* params.keys(): every name, repeated names included, in URL order
ParamKeys(params) == [i \in 1..Len(params) |-> params[i][1]]

\* params.get(name): the first value of that name, or null
ParamGet(params, name) ==
    IF \E i \in 1..Len(params) : params[i][1] = name
    THEN LET first == CHOOSE i \in 1..Len(params) :
                          /\ params[i][1] = name
                          /\ \A j \in 1..(i - 1) : params[j][1] # name
         IN  Some(params[first][2])
    ELSE None

RECURSIVE InsertSorted(_, _)
\* the place of name in an ascending sequence, after the names not above it
InsertSorted(sorted, name) ==
    IF sorted = <<>> THEN <<name>>
    ELSE IF NameLess(name, Head(sorted))
         THEN <<name>> \o sorted
         ELSE <<Head(sorted)>> \o InsertSorted(Tail(sorted), name)

\* the names left in the order of the URL
SortKeysOmitted(keys) == keys

RECURSIVE SortKeys(_)
\* [...keys].sort(): ascending by code units, stable
SortKeys(keys) ==
    IF keys = <<>> THEN <<>>
    ELSE InsertSorted(SortKeys(SubSeq(keys, 1, Len(keys) - 1)), keys[Len(keys)])

\* `${key}=${params.get(key)}`
KeyValuePair(params, key) == key \o <<"=">> \o ParamGet(params, key)[1]

RECURSIVE JoinAmp(_)
\* Array.prototype.join('&')
JoinAmp(parts) ==
    IF parts = <<>> THEN EmptyStr
    ELSE IF Len(parts) = 1 THEN parts[1]
         ELSE parts[1] \o <<"&">> \o JoinAmp(Tail(parts))

generateCacheKey(params) ==
    LET sortedKeys == SortKeys(ParamKeys(params))
    IN  JoinAmp([i \in 1..Len(sortedKeys) |-> KeyValuePair(params, sortedKeys[i])])

-----------------------------------------------------------------------------
(* Requests *)

Q_NONE == <<>>
Q_AKL_JSON == <<Param(Str("timezone"), TZ_AKL), Param(Str("format"), Str("json"))>>
Q_PHOBOS == <<Param(Str("timezone"), TZ_PHOBOS)>>

\* the query strings of the requests
Queries == {Q_NONE, Q_AKL_JSON, Q_PHOBOS}

\* ?format=json&timezone=Asia/Tokyo, and ?format=json%26timezone%3DAsia%2FTokyo:
\* one parameter, whose decoded value holds the characters '&' and '='
Q_TOKYO_JSON == <<Param(Str("format"), Str("json")), Param(Str("timezone"), TZ_TOKYO)>>
Q_CRAFTED ==
    <<Param(Str("format"),
            Str("json") \o <<"&">> \o Str("timezone") \o <<"=">> \o TZ_TOKYO)>>

\* the query strings with a value that holds separators
CraftedQueries == {Q_TOKYO_JSON, Q_CRAFTED}

\* the values of the CF-Connecting-IP header: absent, an address
Headers == {None, Some(IP_A)}

\* and the header with an empty value and with the word unknown
AnyHeaders == Headers \cup {Some(EmptyStr), Some(UNKNOWN)}

Requests ==
    [method : {"GET"}, header : Headers, query : Queries]
        \cup [method : {"OPTIONS"}, header : Headers, query : {Q_AKL_JSON}]

\* the requests with every value of the header
RequestsCrafted ==
    Requests \cup [method : {"GET"}, header : Headers, query : CraftedQueries]

RequestsAnyHeader ==
    [method : {"GET"}, header : AnyHeaders, query : Queries]
        \cup [method : {"OPTIONS"}, header : AnyHeaders, query : {Q_AKL_JSON}]

\* request.headers.get('CF-Connecting-IP') || 'unknown'
ClientIp(header) == IF header = None \/ header = Some(EmptyStr) THEN UNKNOWN ELSE header[1]

Clients == {ClientIp(h) : h \in Headers}

\* generateCacheKey(request.url), for the requests of the model
CacheKeyOf == [q \in Queries \cup CraftedQueries |-> generateCacheKey(q)]

\* the instants at which the clock is read
Offsets == {0, CACHE_TTL_MS, CACHE_TTL_MS + 1, RATE_LIMIT_WINDOW_MS - 1}
Times == Offsets \cup {w * RATE_LIMIT_WINDOW_MS : w \in 1..MaxWindows}

-----------------------------------------------------------------------------
(* Responses *)

NoBody == [kind |-> "null"]
ErrorBody(message) == [kind |-> "error", error |-> message]

MSG_RATE == Str("Rate limit exceeded. Please try again later.")
\* the missing parameter reported with a message of its own making
MSG_MISSING_Generic == Str("Bad request.")
MSG_MISSING == Str("Missing 'timezone' query parameter.")
MSG_INTERNAL == Str("Internal Server Error. Please try again later.")
\* the offending value left out of the message
MsgInvalidNoEcho(timezone) ==
    Str("Invalid timezone. Please provide a valid IANA timezone identifier.")
MsgInvalid(timezone) ==
    Str("Invalid timezone '") \o timezone
        \o Str("'. Please provide a valid IANA timezone identifier.")

\* the TimeReport: the fields that name the zone and the instant
TimeReport(timezone, instant) ==
    [kind |-> "report", timezone |-> timezone, timestamp_milliseconds |-> instant]

Response(status, body) == [status |-> status, body |-> body]

-----------------------------------------------------------------------------
(* The stages of onRequest *)

\* an entry of exactly 1000 ms taken for expired
CacheFreshStrict(cache, cacheKey, currentTime) ==
    /\ cacheKey \in DOMAIN cache
    /\ currentTime - cache[cacheKey].timestamp < CACHE_TTL_MS

\* an entry never expires
CacheFreshForever(cache, cacheKey, currentTime) == cacheKey \in DOMAIN cache

\* the two times of the age exchanged
CacheFreshSwapped(cache, cacheKey, currentTime) ==
    /\ cacheKey \in DOMAIN cache
    /\ cache[cacheKey].timestamp - currentTime <= CACHE_TTL_MS

\* the freshness window taken for seconds
CacheFreshSeconds(cache, cacheKey, currentTime) ==
    /\ cacheKey \in DOMAIN cache
    /\ currentTime - cache[cacheKey].timestamp <= 1

\* responseCache.has(cacheKey) and currentTime - timestamp <= 1000
CacheFresh(cache, cacheKey, currentTime) ==
    /\ cacheKey \in DOMAIN cache
    /\ currentTime - cache[cacheKey].timestamp <= CACHE_TTL_MS

\* rateLimitMap.get(ip) || { count: 0, last: currentTime }
RateData(map, ip, currentTime) ==
    IF ip \in DOMAIN map THEN map[ip] ELSE [count |-> 0, last |-> currentTime]

\* the window taken for seconds
InWindowSeconds(rateData, currentTime) == currentTime - rateData.last < 60

\* the end of the window counted to the window
InWindowInclusive(rateData, currentTime) ==
    currentTime - rateData.last <= RATE_LIMIT_WINDOW_MS

\* currentTime - rateData.last < RATE_LIMIT_WINDOW_MS
InWindow(rateData, currentTime) == currentTime - rateData.last < RATE_LIMIT_WINDOW_MS

\* a new window started at count 0
CountedFromZero(rateData, currentTime) ==
    IF InWindow(rateData, currentTime)
    THEN [rateData EXCEPT !.count = @ + 1]
    ELSE [count |-> 0, last |-> currentTime]

\* rateData after the if/else of the rate limiter
Counted(rateData, currentTime) ==
    IF InWindow(rateData, currentTime)
    THEN [rateData EXCEPT !.count = @ + 1]
    ELSE [count |-> 1, last |-> currentTime]

\* one request too many let through
OverLimitOffByOne(rateData, currentTime) ==
    /\ InWindow(rateData, currentTime)
    /\ Counted(rateData, currentTime).count > RATE_LIMIT_MAX_REQUESTS + 1

\* rateData.count > RATE_LIMIT_MAX_REQUESTS, in the branch that incremented it
OverLimit(rateData, currentTime) ==
    /\ InWindow(rateData, currentTime)
    /\ Counted(rateData, currentTime).count > RATE_LIMIT_MAX_REQUESTS

\* the increment of a rejected request lost
MapAfterRejectLost(map, ip, currentTime) == map

\* the window restarted by a rejected request
MapAfterRejectExtends(map, ip, currentTime) ==
    IF ip \in DOMAIN map
    THEN [map EXCEPT ![ip] = [count |-> @.count + 1, last |-> currentTime]]
    ELSE map

\* the map after a rejected request: the record of the map was incremented in
\* place, a record made for this request is dropped
MapAfterReject(map, ip, currentTime) ==
    IF ip \in DOMAIN map
    THEN [map EXCEPT ![ip] = Counted(map[ip], currentTime)]
    ELSE map

\* rateLimitMap.set(ip, rateData)
MapSet(map, key, value) ==
    [k \in DOMAIN map \cup {key} |-> IF k = key THEN value ELSE map[k]]

\* url.searchParams.get("timezone")
TimezoneParam(params) == ParamGet(params, Str("timezone"))

\* url.searchParams.get("timezone"), for the requests of the model
TimezoneParamOf == [q \in Queries \cup CraftedQueries |-> TimezoneParam(q)]

\* !timezone
MissingTimezone(timezone) == timezone = None \/ timezone = Some(EmptyStr)

\* validTimezones.includes(timezone)
IsValidTimezone(timezone) == timezone \in validTimezones

-----------------------------------------------------------------------------
(* The validation of the variants with the format check (unnamed/part_000,  *)
(* unnamed/part_001).  The values of the parameter are sequences of         *)
(* characters.                                                              *)

\* characters of the class [A-Za-z_], and the others of the model
WordChars == {"G", "M", "T", "_"}
FormatChars == WordChars \cup {"/", "+", "1"}

\* the timezone pattern as an automaton over the characters read: 0 at the
\* start, 1 in the first segment, 2 after a slash, 3 in a later segment (the
\* pattern is matched if the input ends here), 4 no match
PatternStep(q, c) ==
    IF c \in WordChars
    THEN IF q \in {0, 1} THEN 1 ELSE IF q \in {2, 3} THEN 3 ELSE 4
    ELSE IF c = "/" /\ q \in {1, 3} THEN 2 ELSE 4

RECURSIVE PatternState(_, _)
\* the state of the automaton after the first n characters of str
PatternState(str, n) ==
    IF n = 0 THEN 0
    ELSE The({PatternStep(q, str[n]) : q \in {PatternState(str, n - 1)}})

\* /^[A-Za-z_]+\/[A-Za-z_]+(?:\/[A-Za-z_]+)*$/.test(timezone)
timezonePatternTest(timezone) == PatternState(timezone, Len(timezone)) = 3

MSG_FORMAT == Str("Invalid timezone format. Please provide a valid IANA timezone identifier.")

\* zone names: two of the form Region/City, which every platform lists, and
\* two which a platform may list, of one segment and with a sign and a digit
ZONE_CITY == <<"G", "/", "M">>
ZONE_CITY_UNDERSCORE == <<"G", "/", "M", "_", "T">>
ZONE_GMT == <<"G", "M", "T">>
ZONE_ETC == <<"T", "/", "+", "1">>

\* Intl.supportedValuesOf('timeZone') on the platforms of the model
SupportedSets ==
    {{ZONE_CITY, ZONE_CITY_UNDERSCORE}, {ZONE_CITY, ZONE_CITY_UNDERSCORE, ZONE_GMT, ZONE_ETC}}

\* the membership check made before the format check
ValidationMembershipFirst(supported, timezone) ==
    IF MissingTimezone(timezone)
    THEN [stage |-> "missing", response |-> Response(400, ErrorBody(MSG_MISSING))]
    ELSE IF timezone[1] \notin supported
    THEN [stage |-> "invalid",
          response |-> Response(400, ErrorBody(MsgInvalid(timezone[1])))]
    ELSE IF ~timezonePatternTest(timezone[1])
    THEN [stage |-> "format", response |-> Response(400, ErrorBody(MSG_FORMAT))]
    ELSE [stage |-> "try", response |-> Response(200, [kind |-> "report"])]

\* the checks of the timezone parameter in their order, for a request that got
\* past the rate limiter: the stage that answers and its response; "try" is
\* the try block, reached when no check returned
Validation(supported, timezone) ==
    IF MissingTimezone(timezone)
    THEN [stage |-> "missing", response |-> Response(400, ErrorBody(MSG_MISSING))]
    ELSE IF ~timezonePatternTest(timezone[1])
    THEN [stage |-> "format", response |-> Response(400, ErrorBody(MSG_FORMAT))]
    ELSE IF timezone[1] \notin supported
    THEN [stage |-> "invalid",
          response |-> Response(400, ErrorBody(MsgInvalid(timezone[1])))]
    ELSE [stage |-> "try", response |-> Response(200, [kind |-> "report"])]

-----------------------------------------------------------------------------
(* The time report of the variant without a date library (unnamed/part_000). *)
(*                                                                          *)
(* A Date is its time value, kept as the day since the epoch and the        *)
(* millisecond of that day, or the invalid Date (time value NaN).  A number *)
(* that may be NaN is <<n>> or <<>>.  The strings of the report are         *)
(* sequences of characters.                                                 *)

MS_PER_DAY == 86400000
MS_PER_MINUTE == 60000

Date(day, ms) == [day |-> day, ms |-> ms]
InvalidDate == [invalid |-> TRUE]
IsValidDate(d) == "day" \in DOMAIN d

Num(n) == <<n>>
NaN == <<>>

\* new Date(date.getTime() + delta)
AddMs(d, delta) ==
    LET total == d.ms + delta
    IN  Date(d.day + (total \div MS_PER_DAY), total % MS_PER_DAY)

\* a - b for two valid Dates not many days apart
DiffMs(a, b) == (a.day - b.day) * MS_PER_DAY + (a.ms - b.ms)

\* the day of the epoch of a civil date (month 1..12)
DaysFromCivil(y, m, d) ==
    LET yy == IF m <= 2 THEN y - 1 ELSE y
        era == yy \div 400
        yoe == yy - era * 400
        mp == IF m > 2 THEN m - 3 ELSE m + 9
        doy == (153 * mp + 2) \div 5 + d - 1
        doe == yoe * 365 + yoe \div 4 - yoe \div 100 + doy
    IN  era * 146097 + doe - 719468

\* the civil date of a day of the epoch
CivilFromDays(z) ==
    LET zz == z + 719468
        era == zz \div 146097
        doe == zz - era * 146097
        yoe == (doe - doe \div 1460 + doe \div 36524 - doe \div 146096) \div 365
        doy == doe - (365 * yoe + yoe \div 4 - yoe \div 100)
        mp == (5 * doy + 2) \div 153
        d == doy - (153 * mp + 2) \div 5 + 1
        m == IF mp < 10 THEN mp + 3 ELSE mp - 9
        y == yoe + era * 400 + (IF m <= 2 THEN 1 ELSE 0)
    IN  [year |-> y, month |-> m, day |-> d]

\* the getters of a valid Date
getUTCFullYear(d) == CivilFromDays(d.day).year
getUTCMonth(d) == CivilFromDays(d.day).month - 1
getUTCDate(d) == CivilFromDays(d.day).day
getUTCHours(d) == d.ms \div 3600000
getUTCMinutes(d) == (d.ms \div MS_PER_MINUTE) % 60
getUTCSeconds(d) == (d.ms \div 1000) % 60
getUTCMilliseconds(d) == d.ms % 1000
\* 0 is Sunday; the first day of the epoch was a Thursday
getUTCDay(d) == (d.day + 4) % 7

\* date.setUTCDate(n): the day of the month replaced, overflow carried
setUTCDate(d, n) == Date(d.day + (n - getUTCDate(d)), d.ms)

\* Date.UTC(year, monthIndex, day)
DateUTC(year, monthIndex, day) == Date(DaysFromCivil(year, monthIndex + 1, day), 0)

(* Characters and numerals *)

DigitChars == <<"0", "1", "2", "3", "4", "5", "6", "7", "8", "9">>
IsDigit(c) == \E i \in 1..10 : DigitChars[i] = c
DigitValue(c) == (CHOOSE i \in 1..10 : DigitChars[i] = c) - 1

RECURSIVE NumberToString(_)
\* String(n) of a number that is not negative, or of NaN
NumberToString(x) ==
    IF x = NaN THEN <<"N", "a", "N">>
    ELSE IF x[1] < 10 THEN <<DigitChars[x[1] + 1]>>
         ELSE NumberToString(Num(x[1] \div 10)) \o <<DigitChars[(x[1] % 10) + 1]>>

\* str.padStart(2, '0')
padStart2(str) == IF Len(str) < 2 THEN <<"0">> \o str ELSE str

\* the digits of the milliseconds in toISOString: three of them
Pad3(n) ==
    <<DigitChars[(n \div 100) + 1], DigitChars[((n \div 10) % 10) + 1],
      DigitChars[(n % 10) + 1]>>

RECURSIVE NumeralValue(_)
\* the number a sequence of digits spells
NumeralValue(str) ==
    IF str = <<>> THEN 0
    ELSE 10 * NumeralValue(SubSeq(str, 1, Len(str) - 1)) + DigitValue(str[Len(str)])

AllDigits(str) == \A i \in 1..Len(str) : IsDigit(str[i])

(* The platform: the time zone data and the two points on which engines differ *)

TZ_NEW_YORK == <<"America", "/", "New_York">>
TZ_KOLKATA == <<"Asia", "/", "Kolkata">>
TZ_ST_JOHNS == <<"America", "/", "St_Johns">>

\* the zones of the reports of the model, all of them supported
TimeZones == {TZ_AKL, TZ_TOKYO, TZ_NEW_YORK, TZ_KOLKATA, TZ_ST_JOHNS}

\* the offset of a zone in minutes, as the zone data has it in the (northern)
\* winter months, in which the instants of the model lie
ZoneOffset(timezone) ==
    IF timezone = TZ_AKL THEN 780
    ELSE IF timezone = TZ_TOKYO THEN 540
    ELSE IF timezone = TZ_NEW_YORK THEN -300
    ELSE IF timezone = TZ_KOLKATA THEN 330
    ELSE -210

\* hour12: false in the locale en-US selects the hour cycle h23 (00..23) on some
\* engines and h24 (01..24) on others; a UTC offset with an hour above 23 in a
\* date-time string is rejected by some parsers and taken as written by others
Engines == [hourCycle : {"h23", "h24"}, offsetHour : {"strict", "lenient"}]

\* Intl.DateTimeFormat('en-US', {timeZone, hour12: false, year: 'numeric',
\* month ... second: '2-digit'}).formatToParts(date), by part type
formatToParts(engine, date, timezone) ==
    LET local == AddMs(date, ZoneOffset(timezone) * MS_PER_MINUTE)
        hour == IF engine.hourCycle = "h24" /\ getUTCHours(local) = 0
                THEN 24 ELSE getUTCHours(local)
    IN  [year |-> NumberToString(Num(getUTCFullYear(local))),
         month |-> padStart2(NumberToString(Num(getUTCMonth(local) + 1))),
         day |-> padStart2(NumberToString(Num(getUTCDate(local)))),
         hour |-> padStart2(NumberToString(Num(hour))),
         minute |-> padStart2(NumberToString(Num(getUTCMinutes(local)))),
         second |-> padStart2(NumberToString(Num(getUTCSeconds(local))))]

\* the date and time of day at the head of a date-time string,
\* YYYY-MM-DDTHH:mm:ss, or the invalid Date: the hour 24 stands for the end of
\* the day and is legal with 00:00 only
ParseDateTime(str) ==
    IF /\ Len(str) >= 19
       /\ str[5] = "-" /\ str[8] = "-" /\ str[11] = "T" /\ str[14] = ":" /\ str[17] = ":"
       /\ AllDigits(SubSeq(str, 1, 4)) /\ AllDigits(SubSeq(str, 6, 7))
       /\ AllDigits(SubSeq(str, 9, 10)) /\ AllDigits(SubSeq(str, 12, 13))
       /\ AllDigits(SubSeq(str, 15, 16)) /\ AllDigits(SubSeq(str, 18, 19))
    THEN LET year == NumeralValue(SubSeq(str, 1, 4))
             month == NumeralValue(SubSeq(str, 6, 7))
             day == NumeralValue(SubSeq(str, 9, 10))
             hour == NumeralValue(SubSeq(str, 12, 13))
             minute == NumeralValue(SubSeq(str, 15, 16))
             second == NumeralValue(SubSeq(str, 18, 19))
         IN  IF /\ month \in 1..12 /\ day \in 1..31
                /\ minute <= 59 /\ second <= 59
                /\ hour <= 23 \/ (hour = 24 /\ minute = 0 /\ second = 0)
             THEN AddMs(Date(DaysFromCivil(year, month, day), 0),
                        hour * 3600000 + minute * MS_PER_MINUTE + second * 1000)
             ELSE InvalidDate
    ELSE InvalidDate

\* new Date(str) for the date-time strings of the program: ...Z, ....sssZ and
\* ...+HH:mm / ...-HH:mm; anything else is the invalid Date
ParseDate(engine, str) ==
    LET head == ParseDateTime(str)
    IN  IF ~IsValidDate(head) THEN InvalidDate
        ELSE IF Len(str) = 20 /\ str[20] = "Z" THEN head
        ELSE IF /\ Len(str) = 24 /\ str[20] = "." /\ str[24] = "Z"
                /\ AllDigits(SubSeq(str, 21, 23))
             THEN IF SubSeq(str, 12, 13) = <<"2", "4">>
                     /\ NumeralValue(SubSeq(str, 21, 23)) # 0
                  THEN InvalidDate
                  ELSE AddMs(head, NumeralValue(SubSeq(str, 21, 23)))
        ELSE IF /\ Len(str) = 25 /\ str[20] \in {"+", "-"} /\ str[23] = ":"
                /\ AllDigits(SubSeq(str, 21, 22)) /\ AllDigits(SubSeq(str, 24, 25))
             THEN LET hours == NumeralValue(SubSeq(str, 21, 22))
                      minutes == NumeralValue(SubSeq(str, 24, 25))
                      sign == IF str[20] = "+" THEN 1 ELSE -1
                  IN  IF minutes <= 59 /\ (hours <= 23 \/ engine.offsetHour = "lenient")
                      THEN AddMs(head, -sign * (hours * 60 + minutes) * MS_PER_MINUTE)
                      ELSE InvalidDate
        ELSE InvalidDate

\* date.toISOString() of a valid Date
toISOString(date) ==
    NumberToString(Num(getUTCFullYear(date))) \o <<"-">>
        \o padStart2(NumberToString(Num(getUTCMonth(date) + 1))) \o <<"-">>
        \o padStart2(NumberToString(Num(getUTCDate(date)))) \o <<"T">>
        \o padStart2(NumberToString(Num(getUTCHours(date)))) \o <<":">>
        \o padStart2(NumberToString(Num(getUTCMinutes(date)))) \o <<":">>
        \o padStart2(NumberToString(Num(getUTCSeconds(date)))) \o <<".">>
        \o Pad3(getUTCMilliseconds(date)) \o <<"Z">>

(* The functions of the report *)

\* getTimezoneOffsetInMinutes(date, timezone): the wall clock of the zone read
\* as a UTC time, minus the instant, rounded to minutes (Math.round: to the
\* nearest, a half upwards)
getTimezoneOffsetInMinutes(engine, date, timezone) ==
    The({IF IsValidDate(tzDate)
         THEN Num((DiffMs(tzDate, date) + 30000) \div MS_PER_MINUTE)
         ELSE NaN :
            tzDate \in {ParseDate(engine, str) :
                str \in {values.year \o <<"-">> \o values.month \o <<"-">> \o values.day
                             \o <<"T">> \o values.hour \o <<":">> \o values.minute
                             \o <<":">> \o values.second \o <<"Z">> :
                    values \in {formatToParts(engine, date, timezone)}}}})

\* offsetInMinutes >= 0 ? '+' : '-' (a comparison with NaN is false)
OffsetSign(offsetInMinutes) ==
    IF offsetInMinutes # NaN /\ offsetInMinutes[1] >= 0 THEN "+" ELSE "-"

\* Math.abs(offsetInMinutes)
AbsOffset(offsetInMinutes) ==
    IF offsetInMinutes = NaN THEN NaN
    ELSE Num(IF offsetInMinutes[1] >= 0 THEN offsetInMinutes[1] ELSE -offsetInMinutes[1])

\* String(Math.floor(absOffset / 60)).padStart(2, '0')
OffsetHours(absOffset) ==
    padStart2(NumberToString(IF absOffset = NaN THEN NaN ELSE Num(absOffset[1] \div 60)))

\* the minutes without their leading zero
OffsetMinutesUnpadded(absOffset) ==
    NumberToString(IF absOffset = NaN THEN NaN ELSE Num(absOffset[1] % 60))

\* String(absOffset % 60).padStart(2, '0')
OffsetMinutes(absOffset) ==
    padStart2(NumberToString(IF absOffset = NaN THEN NaN ELSE Num(absOffset[1] % 60)))

\* the string calculateUTCOffset builds from the offset in minutes
UTCOffsetString(offsetInMinutes) ==
    <<"U", "T", "C">> \o <<OffsetSign(offsetInMinutes)>>
        \o OffsetHours(AbsOffset(offsetInMinutes)) \o <<":">>
        \o OffsetMinutes(AbsOffset(offsetInMinutes))

calculateUTCOffset(engine, date, timezone) ==
    The({UTCOffsetString(offsetInMinutes) :
            offsetInMinutes \in {getTimezoneOffsetInMinutes(engine, date, timezone)}})

\* getLocalISOString(date, timezone): the instant shifted by the offset, its
\* UTC fields down to the second, then the offset as +HH:MM or -HH:MM
getLocalISOString(engine, date, timezone) ==
    The({LET sign == OffsetSign(offsetInMinutes)
             absOffset == AbsOffset(offsetInMinutes)
             hours == OffsetHours(absOffset)
             minutes == OffsetMinutes(absOffset)
             localDate == IF offsetInMinutes = NaN THEN InvalidDate
                          ELSE AddMs(date, offsetInMinutes[1] * MS_PER_MINUTE)
             valid == IsValidDate(localDate)
             year == NumberToString(IF valid THEN Num(getUTCFullYear(localDate)) ELSE NaN)
             month == padStart2(NumberToString(IF valid THEN Num(getUTCMonth(localDate) + 1) ELSE NaN))
             day == padStart2(NumberToString(IF valid THEN Num(getUTCDate(localDate)) ELSE NaN))
             hour == padStart2(NumberToString(IF valid THEN Num(getUTCHours(localDate)) ELSE NaN))
             minuteStr == padStart2(NumberToString(IF valid THEN Num(getUTCMinutes(localDate)) ELSE NaN))
             second == padStart2(NumberToString(IF valid THEN Num(getUTCSeconds(localDate)) ELSE NaN))
         IN  year \o <<"-">> \o month \o <<"-">> \o day \o <<"T">> \o hour \o <<":">>
                 \o minuteStr \o <<":">> \o second \o <<sign>> \o hours \o <<":">> \o minutes :
            offsetInMinutes \in {getTimezoneOffsetInMinutes(engine, date, timezone)}})

\* the week number of a valid Date by its UTC fields: the Thursday of its week
\* against the Thursday of the week of 4 January
WeekOfDate(localDate) ==
    LET dayNumber == (getUTCDay(localDate) + 6) % 7
        thursday == setUTCDate(localDate, getUTCDate(localDate) + 4 - dayNumber)
        jan4 == DateUTC(getUTCFullYear(thursday), 0, 4)
        week1 == setUTCDate(jan4, getUTCDate(jan4) + 3 - ((getUTCDay(jan4) + 6) % 7))
        \* (thursday - week1) / 86400000 - 3 + ((week1.getUTCDay() + 6) % 7),
        \* its whole days and whether half a day more is left
        days == (thursday.day - week1.day) - 3 + ((getUTCDay(week1) + 6) % 7)
        half == IF 2 * thursday.ms >= MS_PER_DAY THEN 1 ELSE 0
    IN  \* 1 + Math.round(x / 7), with Math.round(y) = floor(y + 1/2)
        1 + ((2 * days + half + 7) \div 14)

\* getISOWeekNumber(date, timezone): the local string is parsed back with its
\* offset and the week taken of the UTC fields of the result
getISOWeekNumber(engine, date, timezone) ==
    The({IF IsValidDate(localDate) THEN Num(WeekOfDate(localDate)) ELSE NaN :
            localDate \in {ParseDate(engine, localISOString) :
                localISOString \in {getLocalISOString(engine, date, timezone)}}})

\* the response object of the try block: the fields that tell the time
TimeFields(engine, utcDate, timezone) ==
    The({[local_time |-> getLocalISOString(engine, utcDate, timezone),
         utc_time |-> toISOString(utcDate),
         timezone |-> timezone,
         offset |-> calculateUTCOffset(engine, utcDate, timezone),
         offset_milliseconds |-> IF offsetInMinutes = NaN THEN NaN
                                 ELSE Num(offsetInMinutes[1] * MS_PER_MINUTE),
         iso_week_number |-> getISOWeekNumber(engine, utcDate, timezone),
         timestamp_milliseconds |-> utcDate] :
            offsetInMinutes \in {getTimezoneOffsetInMinutes(engine, utcDate, timezone)}})

-----------------------------------------------------------------------------
(* The state after construction *)

NoRequest == [method |-> "NONE", header |-> None, query |-> Q_NONE]
NoResponse == Response(0, NoBody)

InitState ==
    /\ now = 0
    /\ responseCache = <<>>
    /\ rateLimitMap = <<>>
    /\ req = NoRequest
    /\ resp = NoResponse
    /\ stage = "none"
    /\ found = [cached |-> None, rateData |-> None]
    /\ passed = [c \in Clients |-> 0]
    /\ reached = [c \in Clients |-> 0]

\* requests of every client arrive; no log of the admissions is kept
InitHandler ==
    /\ InitState
    /\ traffic = Headers
    /\ log = None
    /\ refused = None

\* no key is being built
IdleKey ==
    /\ urlA = Q_NONE /\ urlB = Q_NONE
    /\ keyA = None /\ keyB = None

\* no value is being validated on its own
IdleFormat ==
    /\ tzParam = None
    /\ tzSupported = {}
    /\ tzAnswer = None

\* no time report is being computed on its own
IdleTime ==
    /\ platform = [hourCycle |-> "h23", offsetHour |-> "strict"]
    /\ reportDate = InvalidDate
    /\ reportZone = None
    /\ report = None
    /\ offsetArg = NaN
    /\ offsetString = None

Init ==
    /\ InitHandler
    /\ IdleKey
    /\ IdleTime
    /\ IdleFormat

-----------------------------------------------------------------------------
(* The clock *)

LaterTimes(t) == {u \in Times : u > t}

\* the next instant at which the clock is read
NextTime(t) == CHOOSE u \in LaterTimes(t) : \A v \in LaterTimes(t) : u <= v

\* a count of a burst under way
BurstCount(count) ==
    /\ count > MaxBackground
    /\ count < RATE_LIMIT_MAX_REQUESTS - BurstMargin

Bursting(map) == \E ip \in DOMAIN map : BurstCount(map[ip].count)

\* the entries older than 1000 ms dropped as time passes
TickPurging ==
    /\ ~Bursting(rateLimitMap)
    /\ LaterTimes(now) # {}
    /\ now' = NextTime(now)
    /\ responseCache' =
           [k \in {j \in DOMAIN responseCache :
                      NextTime(now) - responseCache[j].timestamp <= CACHE_TTL_MS}
               |-> responseCache[k]]
    /\ UNCHANGED <<rateLimitMap, req, resp, stage, found, passed, reached, log, refused>>
    /\ UNCHANGED <<keyVars, timeVars, formatVars, traffic>>

\* time passes between two requests
Tick ==
    /\ ~Bursting(rateLimitMap)
    /\ LaterTimes(now) # {}
    /\ now' = NextTime(now)
    /\ UNCHANGED <<responseCache, rateLimitMap, req, resp, stage, found, passed, reached,
                   log, refused>>
    /\ UNCHANGED <<keyVars, timeVars, formatVars, traffic>>

\* what a second reading of the clock within one request may return
SecondReading(t) == {u \in Times : t <= u /\ u <= t + MaxLatency}

-----------------------------------------------------------------------------
(* onRequest *)

\* the requests the model explores: during a burst, the last request again
Explored(r) ==
    /\ r.header \in traffic
    /\ Bursting(rateLimitMap) => r = req

\* the counts the model explores: within MaxCount, one client at a time beyond
\* MaxBackground, and a burst made of the repetition of a request without
\* parameters
ExploredCount(r, map, ip, currentTime) ==
    LET counted == Counted(RateData(map, ip, currentTime), currentTime)
    IN  /\ counted.count <= MaxCount
        /\ \/ counted.count <= MaxBackground
           \/ \A d \in DOMAIN map \ {ip} : map[d].count <= MaxBackground
        /\ BurstCount(counted.count) => r.query = Q_NONE /\ r = req

\* the parameter checks made before the rate limiter
StageOfValidationFirst(r) ==
    LET currentTime == now
        ip == ClientIp(r.header)
        timezone == TimezoneParamOf[r.query]
    IN  IF r.method = "OPTIONS" THEN "preflight"
        ELSE IF CacheFresh(responseCache, CacheKeyOf[r.query], currentTime) THEN "cache"
        ELSE IF MissingTimezone(timezone) THEN "missing"
        ELSE IF ~IsValidTimezone(timezone[1]) THEN "invalid"
        ELSE IF OverLimit(RateData(rateLimitMap, ip, currentTime), currentTime) THEN "rate"
        ELSE "try"

\* the preflight handled after the cache lookup
StageOfCacheFirst(r) ==
    LET currentTime == now
        ip == ClientIp(r.header)
        timezone == TimezoneParamOf[r.query]
    IN  IF CacheFresh(responseCache, CacheKeyOf[r.query], currentTime) THEN "cache"
        ELSE IF r.method = "OPTIONS" THEN "preflight"
        ELSE IF OverLimit(RateData(rateLimitMap, ip, currentTime), currentTime) THEN "rate"
        ELSE IF MissingTimezone(timezone) THEN "missing"
        ELSE IF ~IsValidTimezone(timezone[1]) THEN "invalid"
        ELSE "try"

\* the stage at which onRequest returns, by its sequence of early returns;
\* "try" is the try block, reached when no earlier stage returned
StageOf(r) ==
    LET currentTime == now
        ip == ClientIp(r.header)
        timezone == TimezoneParamOf[r.query]
    IN  IF r.method = "OPTIONS" THEN "preflight"
        ELSE IF CacheFresh(responseCache, CacheKeyOf[r.query], currentTime) THEN "cache"
        ELSE IF OverLimit(RateData(rateLimitMap, ip, currentTime), currentTime) THEN "rate"
        ELSE IF MissingTimezone(timezone) THEN "missing"
        ELSE IF ~IsValidTimezone(timezone[1]) THEN "invalid"
        ELSE "try"

\* responseCache.get(cacheKey) and rateLimitMap.get(ip), as the request read them
CachedEntry(r) ==
    IF CacheKeyOf[r.query] \in DOMAIN responseCache
    THEN Some(responseCache[CacheKeyOf[r.query]]) ELSE None

ClientRecord(r) ==
    IF ClientIp(r.header) \in DOMAIN rateLimitMap
    THEN Some(rateLimitMap[ClientIp(r.header)]) ELSE None

\* history of a request let through at the clock reading t; what was let
\* through more than a window before t shares no interval of the window's
\* length with this or a later request and is forgotten
Logged(l, ip, t) ==
    [l EXCEPT ![ip] = [u \in DOMAIN @ |->
        IF u = t THEN @[u] + 1
        ELSE IF u < t - RATE_LIMIT_WINDOW_MS THEN 0
        ELSE @[u]]]

\* history of a request that reached the rate-limit stage: one more in the
\* client's window if the window start is kept, the first of a window otherwise
SameWindow(ip) ==
    /\ ip \in DOMAIN rateLimitMap
    /\ ip \in DOMAIN rateLimitMap'
    /\ rateLimitMap'[ip].last = rateLimitMap[ip].last

Tally(hist, ip) == [hist EXCEPT ![ip] = IF SameWindow(ip) THEN @ + 1 ELSE 1]

\* history of a request let through and answered 400 (n = 1) or not (n = 0)
Refusals(hist, ip, n) ==
    IF hist = None THEN None
    ELSE Some([hist[1] EXCEPT ![ip] = IF SameWindow(ip) THEN @ + n ELSE n])

\* if (request.method === 'OPTIONS') return 204
Preflight(r) ==
    /\ Explored(r)
    /\ StageOf(r) = "preflight"
    /\ req' = r
    /\ resp' = Response(204, NoBody)
    /\ stage' = "preflight"
    /\ found' = [cached |-> None, rateData |-> None]
    /\ UNCHANGED <<now, responseCache, rateLimitMap, passed, reached, log, refused>>
    /\ UNCHANGED <<keyVars, timeVars, formatVars, traffic>>

\* the entry's time of creation moved to the time of the hit
ServeCachedRefreshing(r) ==
    LET cacheKey == CacheKeyOf[r.query]
    IN  /\ Explored(r)
        /\ StageOf(r) = "cache"
        /\ req' = r
        /\ resp' = Response(200, responseCache[cacheKey].response)
        /\ stage' = "cache"
        /\ found' = [cached |-> CachedEntry(r), rateData |-> None]
        /\ responseCache' = [responseCache EXCEPT ![cacheKey].timestamp = now]
        /\ UNCHANGED <<now, rateLimitMap, passed, reached, log, refused>>
        /\ UNCHANGED <<keyVars, timeVars, formatVars, traffic>>

\* a fresh entry of the cache is returned
ServeCached(r) ==
    LET cacheKey == CacheKeyOf[r.query]
    IN  /\ Explored(r)
        /\ StageOf(r) = "cache"
        /\ req' = r
        /\ resp' = Response(200, responseCache[cacheKey].response)
        /\ stage' = "cache"
        /\ found' = [cached |-> CachedEntry(r), rateData |-> None]
        /\ UNCHANGED <<now, responseCache, rateLimitMap, passed, reached, log, refused>>
        /\ UNCHANGED <<keyVars, timeVars, formatVars, traffic>>

\* the request got past the preflight and the cache stages
ReachesRateLimit(r) ==
    /\ Explored(r)
    /\ StageOf(r) \notin {"preflight", "cache"}
    /\ ExploredCount(r, rateLimitMap, ClientIp(r.header), now)
    /\ req' = r
    /\ found' = [cached |-> CachedEntry(r), rateData |-> ClientRecord(r)]
    /\ reached' = Tally(reached, ClientIp(r.header))
    /\ UNCHANGED <<keyVars, timeVars, formatVars, traffic>>

\* the rate limiter rejects the request
RateLimited(r) ==
    LET currentTime == now
        ip == ClientIp(r.header)
    IN  /\ StageOf(r) = "rate"
        /\ rateLimitMap' = MapAfterReject(rateLimitMap, ip, currentTime)
        /\ ReachesRateLimit(r)
        /\ resp' = Response(429, ErrorBody(MSG_RATE))
        /\ stage' = "rate"
        /\ UNCHANGED <<now, responseCache, passed, log, refused>>

\* the rate limiter lets the request through and stores the client's record
Admit(r) ==
    LET currentTime == now
        ip == ClientIp(r.header)
        rateData == RateData(rateLimitMap, ip, currentTime)
    IN  /\ rateLimitMap' = MapSet(rateLimitMap, ip, Counted(rateData, currentTime))
        /\ ReachesRateLimit(r)
        /\ passed' = Tally(passed, ip)
        /\ log' = IF log = None THEN None ELSE Some(Logged(log[1], ip, currentTime))

\* the 400 returned before the rate limiter counts the request
MissingParamUncounted(r) ==
    /\ Explored(r)
    /\ StageOf(r) = "missing"
    /\ req' = r
    /\ found' = [cached |-> CachedEntry(r), rateData |-> ClientRecord(r)]
    /\ resp' = Response(400, ErrorBody(MSG_MISSING))
    /\ stage' = "missing"
    /\ UNCHANGED <<now, responseCache, rateLimitMap, passed, reached, log, refused>>
    /\ UNCHANGED <<keyVars, timeVars, formatVars, traffic>>

\* if (!timezone) return 400
MissingParam(r) ==
    /\ StageOf(r) = "missing"
    /\ Admit(r)
    /\ resp' = Response(400, ErrorBody(MSG_MISSING))
    /\ stage' = "missing"
    /\ refused' = Refusals(refused, ClientIp(r.header), 1)
    /\ UNCHANGED <<now, responseCache>>

\* if (!validTimezones.includes(timezone)) return 400
InvalidTimezone(r) ==
    LET timezone == TimezoneParamOf[r.query]
    IN  /\ StageOf(r) = "invalid"
        /\ Admit(r)
        /\ resp' = Response(400, ErrorBody(MsgInvalid(timezone[1])))
        /\ stage' = "invalid"
        /\ refused' = Refusals(refused, ClientIp(r.header), 1)
        /\ UNCHANGED <<now, responseCache>>

\* the try block: the report is computed from one reading of the clock,
\* stored under the cache key with the time of the first reading, returned
Compute(r) ==
    LET timezone == TimezoneParamOf[r.query]
        cacheKey == CacheKeyOf[r.query]
        currentTime == now
    IN  /\ StageOf(r) = "try"
        /\ Admit(r)
        /\ \E instant \in SecondReading(currentTime) :
              LET response == TimeReport(timezone[1], instant)
              IN  /\ now' = instant
                  /\ responseCache' =
                         MapSet(responseCache, cacheKey,
                                [response |-> response, timestamp |-> currentTime])
                  /\ resp' = Response(200, response)
        /\ stage' = "computed"
        /\ refused' = Refusals(refused, ClientIp(r.header), 0)

\* the entry written before the fields are computed
FailAfterStore(r) ==
    /\ StageOf(r) = "try"
    /\ Admit(r)
    /\ \E instant \in SecondReading(now) : now' = instant
    /\ resp' = Response(500, ErrorBody(MSG_INTERNAL))
    /\ stage' = "failed"
    /\ refused' = Refusals(refused, ClientIp(r.header), 0)
    /\ responseCache' =
           MapSet(responseCache, CacheKeyOf[r.query],
                  [response |-> [kind |-> "partial"], timestamp |-> now])

\* the catch block: a step of the try block threw
Fail(r) ==
    /\ StageOf(r) = "try"
    /\ Admit(r)
    /\ \E instant \in SecondReading(now) : now' = instant
    /\ resp' = Response(500, ErrorBody(MSG_INTERNAL))
    /\ stage' = "failed"
    /\ refused' = Refusals(refused, ClientIp(r.header), 0)
    /\ UNCHANGED responseCache

onRequest(r) ==
    \/ Preflight(r)
    \/ ServeCached(r)
    \/ RateLimited(r)
    \/ MissingParam(r)
    \/ InvalidTimezone(r)
    \/ Compute(r)
    \/ Fail(r)

Next ==
    \/ Tick
    \/ \E r \in Requests : onRequest(r)

Spec == Init /\ [][Next]_vars

-----------------------------------------------------------------------------
(* The handler under the requests of one client, with the log of the        *)
(* requests the rate limiter let through.                                   *)

EmptyLog == [c \in Clients |-> [t \in Times |-> 0]]

InitBurst ==
    /\ InitState
    /\ traffic = {None}
    /\ log = Some(EmptyLog)
    /\ refused = None
    /\ IdleKey
    /\ IdleTime
    /\ IdleFormat

SpecBurst == InitBurst /\ [][Next]_vars

-----------------------------------------------------------------------------
(* The handler under requests with every value of the header. *)

InitShared ==
    /\ InitState
    /\ traffic = AnyHeaders
    /\ log = None
    /\ refused = None
    /\ IdleKey
    /\ IdleTime
    /\ IdleFormat

NextShared ==
    \/ Tick
    \/ \E r \in RequestsAnyHeader : onRequest(r)

SpecShared == InitShared /\ [][NextShared]_vars

-----------------------------------------------------------------------------
(* The handler under the requests of one client, with the count of the      *)
(* requests answered 400.                                                   *)

InitQuota ==
    /\ InitState
    /\ traffic = {None}
    /\ log = None
    /\ refused = Some([c \in Clients |-> 0])
    /\ IdleKey
    /\ IdleTime
    /\ IdleFormat

SpecQuota == InitQuota /\ [][Next]_vars

-----------------------------------------------------------------------------
(* The handler under the requests of one client, a query string with        *)
(* separators in a decoded value among them.                                *)

InitCrafted ==
    /\ InitState
    /\ traffic = {None}
    /\ log = None
    /\ refused = None
    /\ IdleKey
    /\ IdleTime
    /\ IdleFormat

NextCrafted ==
    \/ Tick
    \/ \E r \in RequestsCrafted : onRequest(r)

SpecCrafted == InitCrafted /\ [][NextCrafted]_vars

-----------------------------------------------------------------------------
(* generateCacheKey on its own: two query strings are drawn, the keys of    *)
(* both are built.                                                          *)

\* the longest query string drawn
MaxParams == 3

KeyNames == {Str("format"), Str("timezone")}
KeyValues == {TZ_AKL, TZ_TOKYO}
KeyParams == {Param(n, v) : n \in KeyNames, v \in KeyValues}

RECURSIVE QueriesOfLen(_)
QueriesOfLen(n) ==
    IF n = 0 THEN {<<>>}
    ELSE {Append(q, p) : q \in QueriesOfLen(n - 1), p \in KeyParams}

KeyQueries == UNION {QueriesOfLen(n) : n \in 0..MaxParams}

InitKey ==
    /\ InitHandler
    /\ urlA \in KeyQueries /\ urlB \in KeyQueries
    /\ keyA = None /\ keyB = None
    /\ IdleTime
    /\ IdleFormat

BuildKeys ==
    /\ keyA = None
    /\ keyA' = Some(generateCacheKey(urlA))
    /\ keyB' = Some(generateCacheKey(urlB))
    /\ UNCHANGED <<urlA, urlB>>
    /\ UNCHANGED handlerVars
    /\ UNCHANGED <<timeVars, formatVars>>

NextKey == BuildKeys

SpecKey == InitKey /\ [][NextKey]_vars

-----------------------------------------------------------------------------
(* The time report on its own: an engine, an instant and a zone are drawn,   *)
(* the fields of the report are computed.                                    *)

\* the days of the instants: Sundays and Mondays at which the week changes,
\* at the turn of a year and within one
ReportDays ==
    {DaysFromCivil(2021, 1, 3), DaysFromCivil(2023, 12, 31), DaysFromCivil(2024, 1, 7),
     DaysFromCivil(2024, 1, 8), DaysFromCivil(2024, 12, 29), DaysFromCivil(2024, 12, 30)}

\* milliseconds of the day: the midnights of the zones, alone and with
\* minutes, seconds and milliseconds more, and the ends of the day
TimeOfDay(h, m, sec, ms) == h * 3600000 + m * MS_PER_MINUTE + sec * 1000 + ms

ReportTimes ==
    {TimeOfDay(0, 0, 0, 0), TimeOfDay(3, 30, 0, 0), TimeOfDay(5, 0, 0, 500),
     TimeOfDay(11, 0, 0, 0), TimeOfDay(11, 30, 15, 123), TimeOfDay(15, 0, 0, 0),
     TimeOfDay(18, 30, 0, 0), TimeOfDay(23, 0, 0, 0), TimeOfDay(23, 59, 59, 999)}

ReportDates == {Date(d, t) : d \in ReportDays, t \in ReportTimes}

InitTime ==
    /\ InitHandler
    /\ IdleKey
    /\ IdleFormat
    /\ platform \in Engines
    /\ reportDate \in ReportDates
    /\ reportZone \in {Some(z) : z \in TimeZones}
    /\ report = None
    /\ offsetArg = NaN
    /\ offsetString = None

\* the try block up to the response object
BuildReport ==
    /\ report = None
    /\ report' = Some(TimeFields(platform, reportDate, reportZone[1]))
    /\ UNCHANGED <<platform, reportDate, reportZone, offsetArg, offsetString>>
    /\ UNCHANGED handlerVars
    /\ UNCHANGED <<keyVars, formatVars>>

NextTimeReport == BuildReport

SpecTime == InitTime /\ [][NextTimeReport]_vars

-----------------------------------------------------------------------------
(* The formatting of calculateUTCOffset on its own: an offset in whole      *)
(* minutes is drawn, the string is built.                                   *)

\* the largest offset drawn, in minutes
MaxOffset == 840

InitOffset ==
    /\ InitHandler
    /\ IdleKey
    /\ IdleFormat
    /\ platform = [hourCycle |-> "h23", offsetHour |-> "strict"]
    /\ reportDate = InvalidDate
    /\ reportZone = None
    /\ report = None
    /\ offsetArg \in {Num(m) : m \in (-MaxOffset)..MaxOffset}
    /\ offsetString = None

FormatOffset ==
    /\ offsetString = None
    /\ offsetString' = Some(UTCOffsetString(offsetArg))
    /\ UNCHANGED <<platform, reportDate, reportZone, report, offsetArg>>
    /\ UNCHANGED handlerVars
    /\ UNCHANGED <<keyVars, formatVars>>

NextOffset == FormatOffset

SpecOffset == InitOffset /\ [][NextOffset]_vars

-----------------------------------------------------------------------------
(* The validation of the variants with the format check on its own: a value *)
(* of the parameter and a platform are drawn, the checks are made.          *)

MaxChars == 4

RECURSIVE StringsOfLen(_)
StringsOfLen(n) ==
    IF n = 0 THEN {<<>>}
    ELSE {Append(str, c) : str \in StringsOfLen(n - 1), c \in FormatChars}

\* the values of the parameter: every string up to MaxChars characters and
\* the zone names
TimezoneValues ==
    UNION {StringsOfLen(n) : n \in 0..MaxChars}
        \cup {ZONE_CITY, ZONE_CITY_UNDERSCORE, ZONE_GMT, ZONE_ETC}

InitFormat ==
    /\ InitHandler
    /\ IdleKey
    /\ IdleTime
    /\ tzParam \in {None} \cup {Some(v) : v \in TimezoneValues}
    /\ tzSupported \in SupportedSets
    /\ tzAnswer = None

CheckTimezone ==
    /\ tzAnswer = None
    /\ tzAnswer' = Some(Validation(tzSupported, tzParam))
    /\ UNCHANGED <<tzParam, tzSupported>>
    /\ UNCHANGED <<handlerVars, keyVars, timeVars>>

NextFormat == CheckTimezone

SpecFormat == InitFormat /\ [][NextFormat]_vars

-----------------------------------------------------------------------------
(* Properties of the request handler *)

\* the client a request is counted for
ClientOf(r) == ClientIp(r.header)

\* the entry the cache holds for a request, if any
HasEntry(r) == CacheKeyOf[r.query] \in DOMAIN responseCache
EntryOf(r) == responseCache[CacheKeyOf[r.query]]

\* the client of the request has a record whose window is open at the time now
WindowOpen(r) ==
    /\ ClientOf(r) \in DOMAIN rateLimitMap
    /\ now - rateLimitMap[ClientOf(r)].last < 60000

\* the step handles the request r: r is recorded as the request handled last,
\* and the step is not the passing of time alone (a request either leaves the
\* clock alone or changes the record of its client)
Handles(r) ==
    /\ req' = r
    /\ now' = now \/ rateLimitMap' # rateLimitMap

\* C1: a GET whose cache key has an entry not older than 1000 ms is answered
\* 200 with the payload of the entry, whatever the record of its client is, and
\* handling it leaves the rate-limit map as it was.
C1_CacheHitNeverRateLimited ==
    [][\A r \in Requests :
          (/\ Handles(r)
           /\ r.method = "GET"
           /\ HasEntry(r)
           /\ now - EntryOf(r).timestamp <= 1000)
          => /\ resp' = Response(200, EntryOf(r).response)
             /\ rateLimitMap' = rateLimitMap]_vars

\* a request was answered from the cache while its client's count was above
\* 100 in an open window
C1_Witness ==
    /\ stage = "cache"
    /\ resp.status = 200
    /\ WindowOpen(req)
    /\ rateLimitMap[ClientOf(req)].count > 100

\* the request of the step got past the preflight and the cache stages
ReachedRateLimit == stage' \notin {"preflight", "cache"}

\* the count of the client's record as a request finds it, 0 without a record
CountOf(r) ==
    IF ClientOf(r) \in DOMAIN rateLimitMap THEN rateLimitMap[ClientOf(r)].count ELSE 0

\* C2: in every window of a client at most 100 of its requests that reach the
\* rate-limit stage are let through, and a request that reaches the stage
\* within the window (a first request opens one) is answered 429 exactly when
\* the incremented count exceeds 100.
C2_RateLimitThreshold ==
    [][\A r \in {req'} :
          (Handles(r) /\ ReachedRateLimit)
          => /\ passed'[ClientOf(r)] <= 100
             /\ (ClientOf(r) \notin DOMAIN rateLimitMap \/ WindowOpen(r))
                => (resp'.status = 429 <=> CountOf(r) + 1 > 100)]_vars

\* the request that found the count at 100 was rejected, 100 requests of the
\* window having been let through
C2_Witness ==
    /\ stage = "rate"
    /\ resp.status = 429
    /\ passed[ClientOf(req)] = 100
    /\ found.rateData # None
    /\ found.rateData[1].count = 100

\* C3 as stated: once 100 requests of a client were received within a span of
\* 60 seconds (here: they reached the rate-limit stage since the start of the
\* client's window, which is still open), the next GET of the client within
\* the span is answered 429.
C3_NextRequestRejected ==
    [][\A r \in {req'} :
          (/\ Handles(r)
           /\ r.method = "GET"
           /\ WindowOpen(r)
           /\ reached[ClientOf(r)] >= 100)
          => resp'.status = 429]_vars

\* C3 amended: once 100 requests of a client have reached the rate-limit stage
\* since the start of the client's window, the next request of the client that
\* reaches the stage while the window is open is answered 429.
C3_NextCountedRequestRejected ==
    [][\A r \in {req'} :
          (/\ Handles(r)
           /\ ReachedRateLimit
           /\ WindowOpen(r)
           /\ reached[ClientOf(r)] >= 100)
          => resp'.status = 429]_vars

\* the 101st request of a window that reached the stage, a request with a
\* valid timezone, was rejected
C3_Witness ==
    /\ stage = "rate"
    /\ resp.status = 429
    /\ reached[ClientOf(req)] = 101
    /\ req.query = Q_AKL_JSON

\* C4: the first request of a client that reaches the rate-limit stage 60000 ms
\* or more after the start of the client's window is not answered 429, whatever
\* the count was, and leaves the record at count 1 with the window starting at
\* the time of the request.
C4_WindowReset ==
    [][\A r \in {req'} :
          (/\ Handles(r)
           /\ ReachedRateLimit
           /\ ClientOf(r) \in DOMAIN rateLimitMap
           /\ now - rateLimitMap[ClientOf(r)].last >= 60000)
          => /\ resp'.status # 429
             /\ rateLimitMap'[ClientOf(r)] = [count |-> 1, last |-> now]]_vars

\* a request found a count above 100 in a window that had run out, and the
\* record was started anew
C4_Witness ==
    /\ stage \in {"missing", "invalid", "computed", "failed"}
    /\ found.rateData # None
    /\ found.rateData[1].count > 100
    /\ rateLimitMap[ClientOf(req)].count = 1
    /\ rateLimitMap[ClientOf(req)].last >= found.rateData[1].last + 60000

\* the entry of the request's key is within the freshness window
FreshEntry(r) == HasEntry(r) /\ now - EntryOf(r).timestamp <= 1000

\* C5: the payload a computation returns is the payload it stores, under the
\* time at which the request arrived; and a GET whose key has an entry created
\* at t, arriving at a time from t to t + 1000 ms, the boundary included, is
\* answered 200 with that payload by the cache stage, from whichever client it
\* comes, and nothing is written to the cache.
C5_SecondRequestIdentical ==
    [][\A r \in {req'} :
          Handles(r)
          => /\ stage' = "computed"
                => responseCache'[CacheKeyOf[r.query]] =
                       [response |-> resp'.body, timestamp |-> now]
             /\ (/\ r.method = "GET"
                 /\ HasEntry(r)
                 /\ EntryOf(r).timestamp <= now
                 /\ now <= EntryOf(r).timestamp + 1000)
                => /\ resp' = Response(200, EntryOf(r).response)
                   /\ stage' = "cache"
                   /\ responseCache' = responseCache]_vars

\* an entry was served exactly 1000 ms after its creation
C5_Witness ==
    /\ stage = "cache"
    /\ found.cached # None
    /\ now = found.cached[1].timestamp + 1000
    /\ resp = Response(200, found.cached[1].response)
    /\ responseCache[CacheKeyOf[req.query]] = found.cached[1]

\* C6 as stated: a GET whose key has an entry created more than 1000 ms before
\* is answered (unless the computation throws) 200 with a payload of a newer
\* instant than the entry's, and the entry is replaced by that payload.
C6_StaleEntryRecomputed ==
    [][\A r \in {req'} :
          (/\ Handles(r)
           /\ r.method = "GET"
           /\ HasEntry(r)
           /\ now > EntryOf(r).timestamp + 1000
           /\ stage' # "failed")
          => /\ resp'.status = 200
             /\ resp'.body.timestamp_milliseconds >
                    EntryOf(r).response.timestamp_milliseconds
             /\ responseCache'[CacheKeyOf[r.query]].response = resp'.body]_vars

\* C6 amended: a GET whose key has an entry created more than 1000 ms before
\* is never answered from the cache; it goes on to the rate-limit stage, and if
\* it is answered 200 the payload is computed from a reading of the clock not
\* before the arrival of the request, and replaces the entry.
C6_StaleEntryNeverServed ==
    [][\A r \in {req'} :
          (/\ Handles(r)
           /\ r.method = "GET"
           /\ HasEntry(r)
           /\ now > EntryOf(r).timestamp + 1000)
          => /\ ReachedRateLimit
             /\ resp'.status = 200
                => /\ resp'.body.timestamp_milliseconds >= now
                   /\ resp'.body # EntryOf(r).response
                   /\ responseCache'[CacheKeyOf[r.query]] =
                          [response |-> resp'.body, timestamp |-> now]]_vars

\* a request found an expired entry, computed a report and replaced the entry
C6_Witness ==
    /\ stage = "computed"
    /\ found.cached # None
    /\ responseCache[CacheKeyOf[req.query]].response = resp.body
    /\ responseCache[CacheKeyOf[req.query]].timestamp >
           found.cached[1].timestamp + 1000
    /\ resp.body.timestamp_milliseconds >
           found.cached[1].response.timestamp_milliseconds

\* C7: the instant of a payload answered from the cache at the time now is not
\* after now and not more than 1000 ms before it.
C7_HitWithinFreshnessWindow ==
    [][\A r \in {req'} :
          (Handles(r) /\ stage' = "cache")
          => /\ now - 1000 <= resp'.body.timestamp_milliseconds
             /\ resp'.body.timestamp_milliseconds <= now]_vars

\* a payload was served from the cache 1000 ms after its instant
C7_Witness ==
    /\ stage = "cache"
    /\ resp.body.timestamp_milliseconds = now - 1000

\* C8: a request other than a preflight that misses the cache, from a client
\* whose count has reached 100 in its open window, is answered 429 whatever its
\* timezone parameter is, and nothing is written to the cache.
C8_RateLimitBeforeValidation ==
    [][\A r \in {req'} :
          (/\ Handles(r)
           /\ r.method # "OPTIONS"
           /\ ~FreshEntry(r)
           /\ WindowOpen(r)
           /\ CountOf(r) >= 100)
          => /\ resp'.status = 429
             /\ responseCache' = responseCache]_vars

\* a request with an unknown timezone was rejected by the rate limiter
C8_Witness ==
    /\ stage = "rate"
    /\ resp.status = 429
    /\ req.query = Q_PHOBOS
    /\ rateLimitMap[ClientOf(req)].count > 100

\* C9: a request with the method OPTIONS is answered 204 without a body, and
\* handling it leaves the response cache and the rate-limit map as they were.
C9_PreflightBypassesEverything ==
    [][\A r \in {req'} :
          (Handles(r) /\ r.method = "OPTIONS")
          => /\ resp' = Response(204, NoBody)
             /\ responseCache' = responseCache
             /\ rateLimitMap' = rateLimitMap]_vars

\* a preflight was answered while its client was over the limit and the cache
\* held a fresh entry for its URL
C9_Witness ==
    /\ stage = "preflight"
    /\ resp = Response(204, NoBody)
    /\ WindowOpen(req)
    /\ rateLimitMap[ClientOf(req)].count > 100
    /\ FreshEntry(req)

-----------------------------------------------------------------------------
(* Properties of generateCacheKey *)

\* how often a parameter occurs in a query string
Occurrences(params, p) == Cardinality({i \in 1..Len(params) : params[i] = p})

\* two query strings hold the same name=value parameters, in any order
SameParams(a, b) ==
    /\ Len(a) = Len(b)
    /\ \A i \in 1..Len(a) : Occurrences(a, a[i]) = Occurrences(b, a[i])

\* the i-th parameter is the first of its name
FirstOfName(params, i) == \A j \in 1..(i - 1) : params[j][1] # params[i][1]

\* every name has the same first value in both query strings
SameFirstValues(a, b) ==
    \A i \in 1..Len(a) :
        FirstOfName(a, i) => \E k \in 1..Len(b) : b[k] = a[i] /\ FirstOfName(b, k)

\* a name occurs more than once
RepeatsName(params) ==
    \E i, j \in 1..Len(params) : i # j /\ params[i][1] = params[j][1]

\* C10 as stated: two query strings with the same name=value parameters in
\* different orders, names that occur more than once with different values
\* included, get the same key.
C10_OrderInvariant ==
    (keyA # None /\ urlA # urlB /\ SameParams(urlA, urlB)) => keyA = keyB

\* C10 amended: two query strings with the same name=value parameters in
\* different orders in which every name has the same first value (as it has
\* when no name is repeated) get the same key.
C10_OrderInvariantFirstValues ==
    (/\ keyA # None
     /\ urlA # urlB
     /\ SameParams(urlA, urlB)
     /\ SameFirstValues(urlA, urlB))
    => keyA = keyB

\* two orders of three parameters, one name among them twice with two values,
\* got the same key
C10_Witness ==
    /\ keyA # None
    /\ keyA = keyB
    /\ urlA # urlB
    /\ Len(urlA) = 3
    /\ SameParams(urlA, urlB)
    /\ SameFirstValues(urlA, urlB)
    /\ RepeatsName(urlA)
    /\ \E i \in 1..3 : urlA[i][1] = Str("timezone") /\ urlA[1][1] = Str("format")
    /\ urlB[1][1] = Str("timezone")

-----------------------------------------------------------------------------
(* Properties of the validation and of the computation *)

\* the first value of the timezone parameter of a request, null if there is none
TimezoneOf(r) ==
    IF \E i \in 1..Len(r.query) : r.query[i][1] = Str("timezone")
    THEN LET first == CHOOSE i \in 1..Len(r.query) :
                          r.query[i][1] = Str("timezone") /\ FirstOfName(r.query, i)
         IN  Some(r.query[first][2])
    ELSE None

\* the request finds its client at the threshold in an open window
AtThreshold(r) == WindowOpen(r) /\ CountOf(r) >= 100

\* C11 as stated: a GET without a timezone parameter is answered 400 with the
\* body {"error": "Missing 'timezone' query parameter."}.
C11_MissingTimezone ==
    [][\A r \in {req'} :
          (Handles(r) /\ r.method = "GET" /\ TimezoneOf(r) = None)
          => resp' = Response(400, [kind |-> "error",
                                    error |-> Str("Missing 'timezone' query parameter.")])]_vars

\* C11 amended: a GET without a timezone parameter that is not answered from
\* the cache and whose client is not over the rate limit is answered 400 with
\* the body {"error": "Missing 'timezone' query parameter."}.
C11_MissingTimezoneWhenAdmitted ==
    [][\A r \in {req'} :
          (/\ Handles(r)
           /\ r.method = "GET"
           /\ TimezoneOf(r) = None
           /\ ~FreshEntry(r)
           /\ ~AtThreshold(r))
          => resp' = Response(400, [kind |-> "error",
                                    error |-> Str("Missing 'timezone' query parameter.")])]_vars

\* a request without parameters was answered 400 by the check of the parameter
C11_Witness ==
    /\ stage = "missing"
    /\ req.method = "GET"
    /\ TimezoneOf(req) = None
    /\ resp.status = 400

\* the message of the 400 that names the value
InvalidMessage(value) ==
    Str("Invalid timezone '") \o value
        \o Str("'. Please provide a valid IANA timezone identifier.")

\* the timezone parameter of the request is a value outside the supported set
UnsupportedTimezone(r) ==
    /\ TimezoneOf(r) # None
    /\ TimezoneOf(r)[1] # EmptyStr
    /\ TimezoneOf(r)[1] \notin validTimezones

C13_NoPartialReport ==
    [][\A r \in {req'} :
          Handles(r)
          => /\ stage' = "failed"
                => /\ resp' = Response(500,
                                       [kind |-> "error",
                                        error |-> Str("Internal Server Error. Please try again later.")])
                   /\ responseCache' = responseCache
             /\ resp'.status = 200
                => /\ resp'.body.kind = "report"
                   /\ DOMAIN resp'.body = {"kind", "timezone", "timestamp_milliseconds"}
             /\ \A k \in DOMAIN responseCache' :
                   /\ responseCache'[k].response.kind = "report"
                   /\ DOMAIN responseCache'[k].response
                          = {"kind", "timezone", "timestamp_milliseconds"}]_vars

\* a computation failed for a key that had an expired entry, and the entry is
\* still the one the request found
C13_Witness ==
    /\ stage = "failed"
    /\ resp.status = 500
    /\ found.cached # None
    /\ responseCache[CacheKeyOf[req.query]] = found.cached[1]

-----------------------------------------------------------------------------
(* Properties of the time report *)

\* the instant of the report and its local wall clock by the zone data
TrueLocal == AddMs(reportDate, ZoneOffset(reportZone[1]) * MS_PER_MINUTE)

\* ISO 8601: the week of a day is the week of the Thursday of its Monday to
\* Sunday week; it belongs to the year of that Thursday and is numbered from
\* the week of the year's first Thursday
ISOThursday(day) == day - ((day + 3) % 7) + 3
ISOWeekYear(day) == CivilFromDays(ISOThursday(day)).year
ISOWeek(day) == ((ISOThursday(day) - DaysFromCivil(ISOWeekYear(day), 1, 1)) \div 7) + 1

\* C14: the local_time of a report, parsed as a date-time with offset, is the
\* instant of its utc_time, to the millisecond.
C14_LocalTimeRoundTrip ==
    report # None
    => /\ IsValidDate(ParseDate(platform, report[1].local_time))
       /\ ParseDate(platform, report[1].local_time)
              = ParseDate(platform, report[1].utc_time)

\* C15: when the local date and the UTC date of the instant lie in different
\* ISO weeks, iso_week_number is the ISO 8601 week of the local date.
C15_WeekOfLocalDate ==
    (/\ report # None
     /\ <<ISOWeekYear(TrueLocal.day), ISOWeek(TrueLocal.day)>>
            # <<ISOWeekYear(reportDate.day), ISOWeek(reportDate.day)>>)
    => report[1].iso_week_number = Num(ISOWeek(TrueLocal.day))

\* the offset in minutes an offset field UTC+HH:MM or UTC-HH:MM reports
ReportedOffset(offset) ==
    IF /\ Len(offset) = 9
       /\ SubSeq(offset, 1, 3) = <<"U", "T", "C">>
       /\ offset[4] \in {"+", "-"}
       /\ AllDigits(SubSeq(offset, 5, 6)) /\ offset[7] = ":" /\ AllDigits(SubSeq(offset, 8, 9))
    THEN Num((IF offset[4] = "+" THEN 1 ELSE -1)
                 * (60 * NumeralValue(SubSeq(offset, 5, 6)) + NumeralValue(SubSeq(offset, 8, 9))))
    ELSE NaN

\* C16: the fields of a report describe one instant: utc_time is the instant
\* of timestamp_milliseconds, the wall clock of local_time is that instant
\* shifted by the offset the offset field reports (to the second), and the
\* offset at the end of local_time is the HH:MM of the offset field.
C16_OneInstant ==
    report # None
    => LET r == report[1]
           reported == ReportedOffset(r.offset)
       IN  /\ ParseDate(platform, r.utc_time) = r.timestamp_milliseconds
           /\ reported # NaN
           /\ ParseDateTime(r.local_time)
                  = LET shifted == AddMs(r.timestamp_milliseconds,
                                         reported[1] * MS_PER_MINUTE)
                    IN  Date(shifted.day, shifted.ms - (shifted.ms % 1000))
           /\ SubSeq(r.local_time, 20, Len(r.local_time)) = SubSeq(r.offset, 4, Len(r.offset))

-----------------------------------------------------------------------------
(* Properties of the rate limiter over time *)

\* C18: the count of every client's record is the number of the client's
\* requests that reached the rate-limit stage since the start of the window
\* the record holds.
C18_NoLostUpdate ==
    \A c \in DOMAIN rateLimitMap : rateLimitMap[c].count = reached[c]

\* two requests of a client were rejected and both are in its count, while
\* the other client has a record of its own
C18_Witness ==
    /\ DOMAIN rateLimitMap = Clients
    /\ \E c \in Clients :
          rateLimitMap[c].count = 102 /\ reached[c] = 102 /\ passed[c] = 100

RECURSIVE SumOver(_, _)
\* the sum of f over the set S
SumOver(f, S) ==
    IF S = {} THEN 0
    ELSE LET t == CHOOSE u \in S : TRUE
         IN  f[t] + SumOver(f, S \ {t})

\* the requests of client c let through at clock readings from a to a + 60000
LetThrough(c, a) == SumOver(log[1][c], {t \in Times : a <= t /\ t <= a + 60000})

\* C19: in no interval of 60000 ms are more than 200 requests of a client let
\* through the rate-limit stage.
C19_BurstBound ==
    log # None => \A c \in Clients : \A a \in Times : LetThrough(c, a) <= 200

\* 200 requests of a client were let through within 60000 ms, 100 before the
\* window ran out and 100 after
C19_Witness ==
    /\ log # None
    /\ \E c \in Clients :
          /\ LetThrough(c, 0) = 200
          /\ log[1][c][60000] = 100

\* C20: a rejected request leaves the start of the client's window as it was
\* and adds one to the count, and nothing else changes in the map; a client
\* with rejected requests in its count is not rejected by the first request
\* that misses the cache 60000 ms or more after the start of the window.
C20_RejectionKeepsWindow ==
    [][\A r \in {req'} :
          Handles(r)
          => /\ resp'.status = 429
                => /\ ClientOf(r) \in DOMAIN rateLimitMap
                   /\ rateLimitMap' =
                          [rateLimitMap EXCEPT ![ClientOf(r)] =
                              [count |-> @.count + 1, last |-> @.last]]
             /\ (/\ r.method # "OPTIONS"
                 /\ ClientOf(r) \in DOMAIN rateLimitMap
                 /\ rateLimitMap[ClientOf(r)].count > 100
                 /\ now >= rateLimitMap[ClientOf(r)].last + 60000
                 /\ ~FreshEntry(r))
                => /\ resp'.status # 429
                   /\ stage' \in {"missing", "invalid", "computed", "failed"}]_vars

\* a client with two rejected requests in its count was let through exactly
\* 60000 ms after the start of its window
C20_Witness ==
    /\ stage \in {"missing", "invalid", "computed", "failed"}
    /\ found.rateData # None
    /\ found.rateData[1].count >= 102
    /\ rateLimitMap[ClientOf(req)] =
           [count |-> 1, last |-> found.rateData[1].last + 60000]

-----------------------------------------------------------------------------
(* Properties of the client identity, of the validation and of the cache *)

\* the request carries no CF-Connecting-IP header, or an empty one
NoHeader(r) == r.header = None \/ r.header = Some(EmptyStr)

\* the record of the client ip is the same before and after the step, or absent
\* before and after
RecordKept(ip) ==
    IF ip \in DOMAIN rateLimitMap
    THEN ip \in DOMAIN rateLimitMap' /\ rateLimitMap'[ip] = rateLimitMap[ip]
    ELSE ip \notin DOMAIN rateLimitMap'

\* C21: a request without the header that reaches the rate-limit stage is
\* counted in the record "unknown" and in no other, and is answered 429 once
\* that record holds 100 in an open window; a request that carries the header
\* leaves the record "unknown" as it was.
C21_SharedUnknownRecord ==
    [][\A r \in {req'} :
          (Handles(r) /\ ReachedRateLimit)
          => /\ NoHeader(r)
                => /\ ClientOf(r) = UNKNOWN
                   /\ \A c \in Clients \ {UNKNOWN} : RecordKept(c)
                   /\ ~RecordKept(UNKNOWN)
                   /\ (WindowOpen(r) /\ rateLimitMap[UNKNOWN].count >= 100)
                      => resp'.status = 429
             /\ ~NoHeader(r) => RecordKept(UNKNOWN)]_vars

\* C22: a request answered 400 missed the cache and is in its client's count
\* (one more in the open window, or the first of a new one), and nothing was
\* written to the cache; once 100 requests of a client were answered 400 in
\* its window, a request of the client that misses the cache while the window
\* is open is answered 429, a valid one included; no entry of the cache holds
\* an error.
C22_InvalidRequestsConsumeQuota ==
    [][\A r \in {req'} :
          Handles(r)
          => /\ resp'.status = 400
                => /\ ~FreshEntry(r)
                   /\ ClientOf(r) \in DOMAIN rateLimitMap'
                   /\ rateLimitMap'[ClientOf(r)] =
                          (IF WindowOpen(r)
                           THEN [count |-> CountOf(r) + 1,
                                 last |-> rateLimitMap[ClientOf(r)].last]
                           ELSE [count |-> 1, last |-> now])
                   /\ responseCache' = responseCache
             /\ (/\ refused # None
                 /\ ReachedRateLimit
                 /\ WindowOpen(r)
                 /\ refused[1][ClientOf(r)] >= 100)
                => resp'.status = 429
             /\ \A k \in DOMAIN responseCache' :
                    responseCache'[k].response.kind = "report"]_vars

\* after 100 requests answered 400 in the window, a request with a supported
\* timezone, which nothing in the cache answers, was rejected
C22_Witness ==
    /\ refused # None
    /\ stage = "rate"
    /\ resp.status = 429
    /\ req.query = Q_AKL_JSON
    /\ refused[1][ClientOf(req)] = 100
    /\ ~HasEntry(req)

\* C23 as stated: a request answered from the cache leaves the cache as it
\* was, and a GET whose key has an entry created more than 1000 ms before has
\* a new report computed for it.
C23_HitsDoNotRefresh ==
    [][\A r \in {req'} :
          Handles(r)
          => /\ stage' = "cache" => responseCache' = responseCache
             /\ (/\ r.method = "GET"
                 /\ HasEntry(r)
                 /\ now > EntryOf(r).timestamp + 1000)
                => stage' \in {"computed", "failed"}]_vars

\* C23 amended: a request answered from the cache leaves the cache as it was,
\* the cache changes only when a report is computed, and a GET whose key has
\* an entry created more than 1000 ms before is not answered from the cache:
\* it goes on to the rate limiter, and if a report is computed for it the
\* entry is replaced, with the time of the request as the time of creation.
C23_HitsDoNotRefreshLifetimeFixed ==
    [][\A r \in {req'} :
          Handles(r)
          => /\ stage' = "cache"
                => /\ responseCache' = responseCache
                   /\ now <= EntryOf(r).timestamp + 1000
             /\ responseCache' # responseCache => stage' = "computed"
             /\ (/\ r.method = "GET"
                 /\ HasEntry(r)
                 /\ now > EntryOf(r).timestamp + 1000)
                => /\ ReachedRateLimit
                   /\ stage' = "computed"
                      => /\ responseCache'[CacheKeyOf[r.query]].timestamp = now
                         /\ responseCache'[CacheKeyOf[r.query]].response = resp'.body]_vars

\* an entry was served later than its creation and is still the entry the
\* request found
C23_Witness ==
    /\ stage = "cache"
    /\ found.cached = Some(EntryOf(req))
    /\ EntryOf(req).timestamp < now
    /\ resp.body = EntryOf(req).response

\* C24: no step removes a key of the cache or a client of the rate-limit map;
\* an entry of the cache changes only when a report is computed for its key;
\* a request whose key has an entry older than 1000 ms is not answered from
\* the cache.
C24_NothingEvicted ==
    [][/\ DOMAIN responseCache \subseteq DOMAIN responseCache'
       /\ DOMAIN rateLimitMap \subseteq DOMAIN rateLimitMap'
       /\ \A k \in DOMAIN responseCache :
              responseCache'[k] # responseCache[k]
              => stage' = "computed" /\ CacheKeyOf[req'.query] = k
       /\ \A r \in {req'} :
              (/\ Handles(r)
               /\ HasEntry(r)
               /\ now > EntryOf(r).timestamp + 1000)
              => stage' # "cache"]_vars

\* a request for a key whose entry had expired was rejected or failed, and
\* the expired entry is still in the cache, next to the records of both
\* clients
C24_Witness ==
    /\ stage \in {"rate", "failed"}
    /\ found.cached # None
    /\ HasEntry(req)
    /\ EntryOf(req) = found.cached[1]
    /\ now > EntryOf(req).timestamp + 1000
    /\ DOMAIN rateLimitMap = Clients

\* the shape Region/City(/Subregion)*: letters and underscores in segments
\* that are not empty, with at least one slash between them
RegionCityShape(str) ==
    /\ \A i \in 1..Len(str) : str[i] \in WordChars \cup {"/"}
    /\ \E i \in 1..Len(str) : str[i] = "/"
    /\ str # <<>> /\ str[1] # "/" /\ str[Len(str)] # "/"
    /\ \A i \in 1..(Len(str) - 1) : ~(str[i] = "/" /\ str[i + 1] = "/")

\* the answer of the format check
FormatAnswer ==
    [stage |-> "format", response |-> Response(400, ErrorBody(MSG_FORMAT))]

\* C25 as stated: every value of the timezone parameter that is not of the
\* shape Region/City(/Subregion)* is answered 400 with the invalid-format
\* message by the format check, a supported value included.
C25_FormatBeforeMembership ==
    (tzAnswer # None /\ tzParam # None /\ ~RegionCityShape(tzParam[1]))
    => tzAnswer[1] = FormatAnswer

\* C25 amended: for a request that reaches the validation, every value of the
\* timezone parameter that is not empty and not of the shape
\* Region/City(/Subregion)* is answered 400 with the invalid-format message by
\* the format check, a supported value included; an empty value is answered
\* with the message of the missing parameter; the membership check and the
\* try block are reached by values of that shape only.
C25_FormatBeforeMembershipNonEmpty ==
    (tzAnswer # None /\ tzParam # None)
    => /\ (tzParam[1] # EmptyStr /\ ~RegionCityShape(tzParam[1]))
          => tzAnswer[1] = FormatAnswer
       /\ tzParam[1] = EmptyStr
          => tzAnswer[1] =
                 [stage |-> "missing", response |-> Response(400, ErrorBody(MSG_MISSING))]
       /\ tzAnswer[1].stage \in {"invalid", "try"} => RegionCityShape(tzParam[1])
       /\ tzAnswer[1].stage = "try" <=> tzParam[1] \in tzSupported /\ RegionCityShape(tzParam[1])

\* a supported name of one segment was answered by the format check
C25_Witness ==
    /\ tzAnswer # None
    /\ tzParam = Some(ZONE_GMT)
    /\ ZONE_GMT \in tzSupported
    /\ tzAnswer[1].stage = "format"
    /\ tzAnswer[1].response.status = 400

\* C26: a cache hit answers the request it is given: whenever a request is
\* answered from the cache, the timezone field of the returned payload is the
\* value of that request's own timezone parameter (the first when repeated),
\* also when a decoded value of the request holds '&' or '='.
C26_CacheHitAnswersOwnTimezone ==
    stage = "cache"
    => /\ resp.body.kind = "report"
       /\ TimezoneParam(req.query) = Some(resp.body.timezone)

=============================================================================
